---- MODULE Spec2Model ----
(***************************************************************************)
(* Model of the diet planner: HealthAgent (health_agent.py),               *)
(* NutritionAgent (nutrition_agent.py), LLMAgent (llm_agent.py) and the    *)
(* RecommendationEngine orchestrator (recommendation_engine.py).           *)
(*                                                                         *)
(* Text is a sequence of one-character strings, so that lower(), strip(),  *)
(* replace(), title() and str.contains() are computed, not assumed.        *)
(* Calories are fixed-point numbers counted in 1/Unit kcal, macros in      *)
(* 1/100 gram; int() is truncation toward zero. The HealthAgent's         *)
(* arithmetic is IEEE 754 binary64, the catalog's frames are objects, so  *)
(* that a write to a frame shows in the catalog exactly when it shares    *)
(* the catalog's object.                                                   *)
(***************************************************************************)
EXTENDS Integers, Sequences, FiniteSets, TLC

VARIABLES
    df,              \* NutritionAgent.df: the loaded catalog, a sequence of rows
    client,          \* LLMAgent.client: "ready", or "none" when construction found no key
    ret,             \* the last direct call of an agent method: its inputs and what it did
    pc,              \* position of RecommendationEngine.generate_plan
    user_profile,    \* generate_plan's argument
    health_analysis, \* generate_plan's local: analyze_user's return value
    day,             \* generate_plan's loop variable
    daily_meals,     \* generate_plan's local: the last recommend_meal_plan return value
    weekly_plan,     \* generate_plan's local: day label -> day entry
    calls,           \* what generate_plan has invoked so far, in order
    passed,          \* the arguments of generate_plan's recommend_meal_plan calls, in order
    result           \* generate_plan's return value

vars == <<df, client, ret, pc, user_profile, health_analysis, day, daily_meals,
          weekly_plan, calls, passed, result>>

engineVars == <<pc, user_profile, health_analysis, day, daily_meals, weekly_plan,
                calls, passed, result>>

---------------------------------------------------------------------------
(* Bounds of the model *)

MaxRows == 4         \* rows of a catalog in the agent-level specification

---------------------------------------------------------------------------
(* Fixed-point arithmetic *)

Unit == 20           \* calories are counted in 1/20 kcal: 0.25, 0.40, 0.35 of an integer are exact

Kcal(n) == n * Unit

\* Python int() of a number given as num/den, den > 0: truncation toward zero
Trunc(num, den) == IF num >= 0 THEN num \div den ELSE -((-num) \div den)

Abs(x) == IF x >= 0 THEN x ELSE -x

Min(a, b) == IF a <= b THEN a ELSE b

RECURSIVE SumOver(_, _)
SumOver(f, S) == IF S = {} THEN 0
                 ELSE LET e == CHOOSE e \in S : TRUE IN f[e] + SumOver(f, S \ {e})

---------------------------------------------------------------------------
(* Text *)

LowerAlpha == <<"a","b","c","d","e","f","g","h","i","j","k","l","m",
                "n","o","p","q","r","s","t","u","v","w","x","y","z">>
UpperAlpha == <<"A","B","C","D","E","F","G","H","I","J","K","L","M",
                "N","O","P","Q","R","S","T","U","V","W","X","Y","Z">>

IsLower(ch) == \E i \in 1..26 : LowerAlpha[i] = ch
IsUpper(ch) == \E i \in 1..26 : UpperAlpha[i] = ch
IsLetter(ch) == IsLower(ch) \/ IsUpper(ch)

LowerCh(ch) == IF IsUpper(ch) THEN LowerAlpha[CHOOSE i \in 1..26 : UpperAlpha[i] = ch] ELSE ch
UpperCh(ch) == IF IsLower(ch) THEN UpperAlpha[CHOOSE i \in 1..26 : LowerAlpha[i] = ch] ELSE ch

\* str.lower()
Lower(s) == [i \in 1..Len(s) |-> LowerCh(s[i])]

\* str.title(): a letter is upper-cased after a non-letter (or at the start), lower-cased otherwise
Title(s) == [i \in 1..Len(s) |->
               IF i = 1 \/ ~IsLetter(s[i-1]) THEN UpperCh(s[i]) ELSE LowerCh(s[i])]

\* str.strip(): leading and trailing blanks removed
RECURSIVE LStrip(_)
LStrip(s) == IF s # <<>> /\ Head(s) = " " THEN LStrip(Tail(s)) ELSE s
RECURSIVE RStrip(_)
RStrip(s) == IF s # <<>> /\ s[Len(s)] = " " THEN RStrip(SubSeq(s, 1, Len(s) - 1)) ELSE s
Strip(s) == RStrip(LStrip(s))

\* str.replace(a, b) for one-character a and b
ReplaceCh(s, a, b) == [i \in 1..Len(s) |-> IF s[i] = a THEN b ELSE s[i]]

\* Series.str.contains(needle) for a needle without regular-expression metacharacters
Contains(hay, needle) ==
    \E i \in 1..(Len(hay) - Len(needle) + 1) : SubSeq(hay, i, i + Len(needle) - 1) = needle

sVeg == <<"v","e","g">>
sNonVeg == <<"n","o","n","-","v","e","g">>
sVegan == <<"v","e","g","a","n">>
sBreakfast == <<"b","r","e","a","k","f","a","s","t">>
sLunch == <<"l","u","n","c","h">>
sDinner == <<"d","i","n","n","e","r">>

sDal == <<"d","a","l">>
sRice == <<"r","i","c","e">>
sEggCurry == <<"e","g","g"," ","c","u","r","r","y">>
sChicken == <<"c","h","i","c","k","e","n">>
sTofu == <<"t","o","f","u">>
sSalad == <<"s","a","l","a","d">>
sTea == <<"t","e","a">>
sSoup == <<"s","o","u","p">>

---------------------------------------------------------------------------
(* NutritionAgent: the catalog *)

\* one row of NutritionAgent.df after _load_data: name, diet and meal_time are
\* lower-cased and stripped, calories in 1/Unit kcal, macros in 1/100 g
Row(n, d, m, cat, cal, p, c, f) ==
    [name |-> n, diet |-> d, meal_time |-> m, category |-> cat,
     calories |-> cal, protein |-> p, carbs |-> c, fats |-> f]

Half == Unit \div 2

\* the rows the catalogs of the model are built from
rDal == Row(sDal, sVeg, sLunch, "curry", Kcal(300), 1800, 4000, 600)
rRice == Row(sRice, sVeg, sLunch, "rice", Kcal(200) + Half, 422, 4400, 50)
rEggCurry == Row(sEggCurry, sVeg, sLunch, "curry", Kcal(250) + Half, 1300, 800, 1500)
rChicken == Row(sChicken, sNonVeg, sDinner, "curry", Kcal(400), 3000, 500, 1200)
rTofu == Row(sTofu, sVegan, sDinner, "generic", Kcal(150), 1600, 300, 900)
rTofuSmall == Row(sTofu, sVegan, sDinner, "generic", Kcal(90), 1000, 200, 500)
rSalad == Row(sSalad, sVegan, sDinner, "salad", Kcal(80), 200, 1000, 100)
rTea == Row(sTea, sVeg, sBreakfast, "beverage", Kcal(60), 100, 900, 200)
rSoup == Row(sSoup, sVeg, sDinner, "soup", Kcal(180), 722, 2000, 300)

FoodPool == <<rDal, rRice, rEggCurry, rChicken, rTofu, rTofuSmall, rSalad, rTea,
              rSoup>>

\* NutritionAgent.pairing_rules: category of the Main -> categories of a Side
pairing_rules ==
    [curry          |-> {"rice", "flatbread", "dry_veg"},
     dry_veg        |-> {"flatbread", "rice", "curry"},
     rice           |-> {"curry", "dry_veg", "yogurt"},
     soup           |-> {"bread", "salad"},
     pasta          |-> {"salad", "soup", "bread"},
     breakfast_item |-> {"beverage", "fruit"},
     oats           |-> {"fruit", "milk", "nuts"}]

\* pairing_rules.get(main_cat, [])
compatible_cats(main_cat) ==
    IF main_cat \in DOMAIN pairing_rules THEN pairing_rules[main_cat] ELSE {}

---------------------------------------------------------------------------
(* NutritionAgent: composing a meal *)

\* _format_item: the name is title-cased, the calories truncated to an integer
format_item(item, role) ==
    [name |-> Title(item.name), role |-> role,
     calories |-> Trunc(item.calories, Unit),
     protein |-> item.protein, carbs |-> item.carbs, fats |-> item.fats]

\* _sum_macros
sum_macros(items) ==
    [protein |-> SumOver([i \in 1..Len(items) |-> items[i].protein], 1..Len(items)),
     carbs   |-> SumOver([i \in 1..Len(items) |-> items[i].carbs], 1..Len(items)),
     fats    |-> SumOver([i \in 1..Len(items) |-> items[i].fats], 1..Len(items))]

\* sort_values(key).head(n): the index sets the first n rows can be; rows of
\* equal key may come out in any order
HeadSorted(idx, n, key) ==
    { S \in SUBSET idx : /\ Cardinality(S) = Min(n, Cardinality(idx))
                         /\ \A i \in S : \A j \in idx \ S : key[i] <= key[j] }

\* main_candidates with the half rounded up
main_candidates_ceil(rows, idx) ==
    LET descending == [i \in idx |-> -rows[i].calories]
    IN  UNION HeadSorted(idx, (Cardinality(idx) + 1) \div 2, descending)

\* sort_values("calories", ascending=False).head(int(len(df) * 0.5)), then
\* sample(1): the rows the Main can be
main_candidates(rows, idx) ==
    LET descending == [i \in idx |-> -rows[i].calories]
    IN  UNION HeadSorted(idx, Trunc(Cardinality(idx) * 5, 10), descending)

\* side_pool with the category rule dropped
side_pool_any(rows, idx, main) == idx

\* the rows of a compatible category, or every row when the Main's category
\* has no rule ("No specific rule? Pick anything.")
side_pool(rows, idx, main) ==
    LET cats == compatible_cats(rows[main].category)
    IN  IF cats # {} THEN {i \in idx : rows[i].category \in cats} ELSE idx

\* side_candidates without the exclusion of the Main's name
side_candidates_named(rows, idx, main) == side_pool(rows, idx, main)

\* the rows the Side is drawn from: never a row named like the Main
side_candidates(rows, idx, main) ==
    {i \in side_pool(rows, idx, main) : rows[i].name # rows[main].name}

TopK == 3

\* best_sides without the sorting by "diff": any candidate
best_sides_any(rows, cands, remaining_cals) == cands

\* sort_values("diff").head(3), then sample(1): the rows the Side can be
best_sides(rows, cands, remaining_cals) ==
    LET diff == [i \in cands |-> Abs(rows[i].calories - remaining_cals)]
    IN  UNION HeadSorted(cands, TopK, diff)

SideRoom == 50

\* meal_of with the total taken as the sum of the listed, truncated calories
meal_of_listed(rows, main, sides) ==
    LET selected_items == <<format_item(rows[main], "Main")>> \o
                          [k \in 1..Len(sides) |-> format_item(rows[sides[k]], "Side")]
    IN  [items |-> selected_items,
         total_calories |-> SumOver([k \in 1..Len(selected_items) |->
                                        selected_items[k].calories], 1..Len(selected_items)),
         macro_summary |-> sum_macros(selected_items)]

\* the meal made of the given Main and, when there is one, the given Side
meal_of(rows, main, sides) ==
    LET selected_items == <<format_item(rows[main], "Main")>> \o
                          [k \in 1..Len(sides) |-> format_item(rows[sides[k]], "Side")]
        current_cals == rows[main].calories +
                        SumOver([k \in 1..Len(sides) |-> rows[sides[k]].calories], 1..Len(sides))
    IN  [items |-> selected_items,
         total_calories |-> Trunc(current_cals, Unit),
         macro_summary |-> sum_macros(selected_items)]

\* "if remaining_cals > 50" with the bound included
has_room_from(remaining_cals) == remaining_cals >= Kcal(SideRoom)

\* "if remaining_cals > 50": only add a side if there is room
has_room(remaining_cals) == remaining_cals > Kcal(SideRoom)

\* a DataFrame: the object it is and the catalog rows it holds; "self.df" is
\* the object the agent keeps, every other name an object made during a call
Frame(obj, idx) == [obj |-> obj, idx |-> idx]

\* a selection or a copy that shares the object it was made from
new_frame_view(frame, obj, idx) == Frame(frame.obj, idx)

\* frame[mask] and frame.copy(): a new object holding the rows idx
new_frame(frame, obj, idx) == Frame(obj, idx)

\* _build_smart_meal(df, target_calories): what the call can do, df being the
\* frame it is given, target in 1/Unit kcal: the meal it returns and the
\* columns it writes, each with the object written to
build_smart_meal_on(rows, df_frame, target_calories) ==
    IF main_candidates(rows, df_frame.idx) = {}
    THEN {[meal |-> [items |-> <<>>, total_calories |-> 0], writes |-> <<>>]}
    ELSE UNION { LET remaining_cals == target_calories - rows[main].calories
                     cands == side_candidates(rows, df_frame.idx, main)
                     pool == IF compatible_cats(rows[main].category) # {}
                             THEN new_frame(df_frame, "df[isin]",
                                            side_pool(rows, df_frame.idx, main))
                             ELSE df_frame
                     named == new_frame(pool, "side_candidates[name]", cands)
                     copied == new_frame(named, "side_candidates.copy()", cands)
                     diff == [i \in cands |-> Abs(rows[i].calories - remaining_cals)]
                 IN  IF has_room(remaining_cals) /\ cands # {}
                     THEN {[meal |-> meal_of(rows, main, <<side>>),
                            writes |-> <<[obj |-> copied.obj, column |-> "diff",
                                          values |-> diff]>>] :
                              side \in best_sides(rows, cands, remaining_cals)}
                     ELSE {[meal |-> meal_of(rows, main, <<>>), writes |-> <<>>]}
               : main \in main_candidates(rows, df_frame.idx) }

\* the set of meals _build_smart_meal can return for the rows idx of the catalog
build_smart_meal(rows, idx, target_calories) ==
    {r.meal : r \in build_smart_meal_on(rows, Frame("df", idx), target_calories)}

---------------------------------------------------------------------------
(* NutritionAgent: planning a day *)

sBreakfastName == <<"B","r","e","a","k","f","a","s","t">>
sLunchName == <<"L","u","n","c","h">>
sDinnerName == <<"D","i","n","n","e","r">>

\* splits: meal name and its share of the day, in twentieths
splits == [Breakfast |-> [meal_name |-> sBreakfastName, ratio |-> 5],
           Lunch     |-> [meal_name |-> sLunchName,     ratio |-> 8],
           Dinner    |-> [meal_name |-> sDinnerName,    ratio |-> 7]]

\* diet_preference.lower().strip()
diet_pref_of(diet_preference) == Strip(Lower(diet_preference))

\* self.df[self.df["diet"].str.contains(diet_pref)]
diet_df(rows, diet_pref) == {i \in 1..Len(rows) : Contains(rows[i].diet, diet_pref)}

\* the subset of a slot without the meal_time filter: the whole diet_df
time_df_whole(rows, ddf, meal_name) == ddf

\* diet_df[diet_df["meal_time"] == meal_name.lower()], or diet_df when that is empty
time_df(rows, ddf, meal_name) ==
    LET t == {i \in ddf : rows[i].meal_time = Lower(meal_name)}
    IN  IF t = {} THEN ddf ELSE t

sNoFoods == <<"N","o"," ","f","o","o","d","s"," ","f","o","u","n","d"," ",
              "f","o","r"," ","d","i","e","t",":"," ">>

\* recommend_meal_plan(diet_preference, total_calories): what the call can do,
\* total_calories an integer number of kcal: the value it returns and the
\* columns its three _build_smart_meal calls write
recommend_meal_plan_on(rows, diet_preference, total_calories) ==
    LET ddf == diet_df(rows, diet_pref_of(diet_preference))
        diet_frame == new_frame(new_frame(Frame("self.df", 1..Len(rows)),
                                          "self.df[contains]", ddf), "diet_df", ddf)
        time_frame(meal_name) ==
            IF \A i \in ddf : rows[i].meal_time # Lower(meal_name)
            THEN Frame(diet_frame.obj, time_df(rows, ddf, meal_name))
            ELSE new_frame(new_frame(diet_frame, "diet_df[meal_time]",
                                     time_df(rows, ddf, meal_name)),
                           "time_df", time_df(rows, ddf, meal_name))
        slot(s) == build_smart_meal_on(rows, time_frame(splits[s].meal_name),
                                       total_calories * splits[s].ratio)
    IN  IF ddf = {}
        THEN {[out |-> [error |-> sNoFoods \o diet_preference], writes |-> <<>>]}
        ELSE {[out |-> [Breakfast |-> b.meal, Lunch |-> l.meal, Dinner |-> d.meal],
               writes |-> b.writes \o l.writes \o d.writes] :
                 b \in slot("Breakfast"), l \in slot("Lunch"), d \in slot("Dinner")}

\* the set of values recommend_meal_plan can return
recommend_meal_plan(rows, diet_preference, total_calories) ==
    {r.out : r \in recommend_meal_plan_on(rows, diet_preference, total_calories)}

NaN == -1

\* frame[column] = values, done in order: the agent's catalog afterwards. Only
\* a write to the object "self.df" shows in it, as a new column of every row
RECURSIVE catalog_after(_, _)
catalog_after(rows, writes) ==
    IF writes = <<>> THEN rows
    ELSE LET w == Head(writes)
             written == [i \in 1..Len(rows) |->
                           (w.column :> (IF i \in DOMAIN w.values THEN w.values[i] ELSE NaN))
                           @@ rows[i]]
         IN  catalog_after(IF w.obj = "self.df" THEN written ELSE rows, Tail(writes))

---------------------------------------------------------------------------
(* Python values that a profile or an argument can hold *)

PyStr(s) == [t |-> "str", s |-> s]
PyInt(n) == [t |-> "int", n |-> n]
PyNone == [t |-> "NoneType"]
PyEnum(cls, s) == [t |-> "enum", cls |-> cls, e |-> s]

EmptyDict == [k \in {} |-> TRUE]

\* dict.get(key, default)
Get(d, key, default) == IF key \in DOMAIN d THEN d[key] ELSE default

\* what a call does: it returns a value or raises an exception
Return(v) == [returns |-> v]
Raise(e) == [raises |-> e]
Raised(r) == "raises" \in DOMAIN r

---------------------------------------------------------------------------
(* LLMAgent *)

sHealth == <<"h","e","a","l","t","h">>
sModerate == <<"m","o","d","e","r","a","t","e">>
sYour == <<"Y","o","u","r"," ">>
sBalanced ==
    <<" ","p","l","a","n"," ","i","s"," ","p","e","r","f","e","c","t",
      "l","y"," ","b","a","l","a","n","c","e","d","!"," ","T","h","i",
      "s"," ","m","e","a","l"," ","s","t","r","u","c","t","u","r","e",
      " ","o","p","t","i","m","i","z","e","s"," ","y","o","u","r"," ",
      "e","n","e","r","g","y"," ","l","e","v","e","l","s"," ","w","h",
      "i","l","e"," ","e","n","s","u","r","i","n","g"," ","y","o","u",
      " ","m","e","e","t"," ","y","o","u","r"," ","d","a","i","l","y",
      " ","c","a","l","o","r","i","c"," ","a","n","d"," ","m","a","c",
      "r","o","n","u","t","r","i","e","n","t"," ","t","a","r","g","e",
      "t","s"," ","e","f","f","e","c","t","i","v","e","l","y","."," ",
      "S","t","a","y"," ","c","o","n","s","i","s","t","e","n","t"," ",
      "f","o","r"," ","t","h","e"," ","b","e","s","t"," ","r","e","s",
      "u","l","t","s","!">>

\* the fallback message of explain_plan for a formatted goal
fallback_text(goal) == sYour \o goal \o sBalanced

DefaultDayCalories == 2000

\* what the model service does with a request: it fails, or it answers with a text
ApiOutcomes == { [kind |-> "fails"],
                 [kind |-> "text", text |-> <<>>],
                 [kind |-> "text", text |-> <<" ","G","o","!"," ">>] }

\* the prompt explain_plan builds: the formatted goal, the profile's activity
\* level and Day 1's calories
prompt_of(plan, profile, goal) ==
    LET day1 == Get(plan, <<"Day", 1>>, EmptyDict)
    IN  [goal |-> goal,
         activity |-> Get(profile, "activity_level", PyStr(sModerate)),
         calories |-> Get(day1, "calories", DefaultDayCalories)]

\* explain_plan(*args) on an agent whose client is cl, the model service doing
\* api: the method takes (weekly_plan, user_profile); "sent" is the prompt it
\* sent to the service, if it sent one
explain_plan(args, cl, api) ==
    IF Len(args) # 2 THEN [raises |-> "TypeError", sent |-> <<>>]
    ELSE
    LET weekly == args[1]
        profile == args[2]
        goal_value == Get(profile, "goal", PyStr(sHealth))
    IN  IF goal_value.t # "str" THEN [raises |-> "AttributeError", sent |-> <<>>]
        ELSE
        LET goal == Title(ReplaceCh(goal_value.s, "_", " "))
            prompt == prompt_of(weekly, profile, goal)
        IN  IF cl = "none" THEN [returns |-> fallback_text(goal), sent |-> <<>>]
            ELSE IF api.kind = "text" /\ api.text # <<>>
                 THEN [returns |-> Strip(api.text), sent |-> <<prompt>>]
                 ELSE [returns |-> fallback_text(goal), sent |-> <<prompt>>]

---------------------------------------------------------------------------
(* HealthAgent: enums and the parsing of profile fields *)

sMale == <<"m","a","l","e">>
sFemale == <<"f","e","m","a","l","e">>
sSedentary == <<"s","e","d","e","n","t","a","r","y">>
sLightlyActive == <<"l","i","g","h","t","l","y","_","a","c","t","i","v","e">>
sModeratelyActive == <<"m","o","d","e","r","a","t","e","l","y","_","a","c","t","i","v","e">>
sVeryActive == <<"v","e","r","y","_","a","c","t","i","v","e">>
sExtraActive == <<"e","x","t","r","a","_","a","c","t","i","v","e">>
sWeightLoss == <<"w","e","i","g","h","t","_","l","o","s","s">>
sMaintenance == <<"m","a","i","n","t","e","n","a","n","c","e">>
sMuscleGain == <<"m","u","s","c","l","e","_","g","a","i","n">>
sMaintain == <<"m","a","i","n","t","a","i","n">>
sNone == <<"N","o","n","e">>

\* the values of the members of the three Enum classes
EnumValues == [Gender        |-> {sMale, sFemale},
               ActivityLevel |-> {sSedentary, sLightlyActive, sModeratelyActive,
                                  sVeryActive, sExtraActive},
               Goal          |-> {sWeightLoss, sMaintenance, sMuscleGain}]

EnumClassName == [Gender        |-> <<"G","e","n","d","e","r">>,
                  ActivityLevel |-> <<"A","c","t","i","v","i","t","y","L","e","v","e","l">>,
                  Goal          |-> <<"G","o","a","l">>]

\* str.upper()
Upper(s) == [i \in 1..Len(s) |-> UpperCh(s[i])]

Digits == <<"0","1","2","3","4","5","6","7","8","9">>
IsDigit(ch) == \E i \in 1..10 : Digits[i] = ch
DigitVal(ch) == (CHOOSE i \in 1..10 : Digits[i] = ch) - 1

\* str(n) of an integer n >= 0
RECURSIVE IntStr(_)
IntStr(n) == IF n < 10 THEN <<Digits[n + 1]>> ELSE IntStr(n \div 10) \o <<Digits[(n % 10) + 1]>>

\* the number a string of decimal digits denotes
RECURSIVE DigitsVal(_)
DigitsVal(s) == IF s = <<>> THEN 0
                ELSE 10 * DigitsVal(SubSeq(s, 1, Len(s) - 1)) + DigitVal(s[Len(s)])

\* str(value)
str_of(value) ==
    CASE value.t = "str" -> value.s
      [] value.t = "NoneType" -> sNone
      [] value.t = "int" -> IF value.n >= 0 THEN IntStr(value.n) ELSE <<"-">> \o IntStr(-value.n)
      [] value.t = "enum" -> EnumClassName[value.cls] \o <<".">> \o Upper(value.e)

\* float(value) and int(value) for an integer, None, an Enum member, or a string
\* made of blanks, letters and digits (a string with a sign, a point or an
\* exponent is outside this model)
number_of(value) ==
    CASE value.t = "int" -> Return(value.n)
      [] value.t = "str" ->
            LET body == Strip(value.s)
            IN  IF body # <<>> /\ \A i \in 1..Len(body) : IsDigit(body[i])
                THEN Return(DigitsVal(body))
                ELSE Raise("ValueError")
      [] OTHER -> Raise("TypeError")

\* enum_class(clean_val)
enum_lookup(enum_class, clean_val) ==
    IF clean_val \in EnumValues[enum_class]
    THEN Return(PyEnum(enum_class, clean_val))
    ELSE Raise("ValueError")

\* _normalize_enum(value, enum_class, default)
normalize_enum(value, enum_class, default) ==
    IF value.t = "enum" /\ value.cls = enum_class THEN value
    ELSE LET clean_val == ReplaceCh(Strip(Lower(str_of(value))), " ", "_")
             tried == IF clean_val = sMaintain
                      THEN Return(PyEnum("Goal", sMaintenance))
                      ELSE enum_lookup(enum_class, clean_val)
         IN  IF Raised(tried) /\ tried.raises \in {"ValueError", "AttributeError"}
             THEN default
             ELSE tried.returns

---------------------------------------------------------------------------
(* Python floats: IEEE 754 binary64 with round-to-nearest-even, computed on
   natural numbers of any size kept as sequences of limbs, lowest limb first.
   A value used more than once is bound by a one-element set, {e : x \in {v}},
   so that it is computed once. *)

\* the base of a limb; a product of two limbs stays a machine integer
Base == 32768
LimbBits == 15
\* the bits of a binary64 significand
Precision == 53

RECURSIVE Pow2(_)
Pow2(s) == IF s = 0 THEN 1 ELSE 2 * Pow2(s - 1)

\* a limb sequence without leading zero limbs
RECURSIVE BNorm(_)
BNorm(a) == IF a = <<>> THEN <<>>
            ELSE IF a[Len(a)] = 0 THEN BNorm(SubSeq(a, 1, Len(a) - 1))
            ELSE a

RECURSIVE BOfInt(_)
BOfInt(n) == IF n = 0 THEN <<>> ELSE <<n % Base>> \o BOfInt(n \div Base)

RECURSIVE BToInt(_)
BToInt(a) == IF a = <<>> THEN 0 ELSE a[1] + Base * BToInt(Tail(a))

\* a * k + carry for 0 <= k < Base
RECURSIVE BMulSmall(_, _, _)
BMulSmall(a, k, carry) ==
    IF a = <<>> THEN BOfInt(carry)
    ELSE <<(a[1] * k + carry) % Base>> \o BMulSmall(Tail(a), k, (a[1] * k + carry) \div Base)

\* the limbs from the i-th on of a + b + carry * Base^(i-1)
RECURSIVE BAdd(_, _, _, _)
BAdd(a, b, i, carry) ==
    IF i > Len(a) /\ i > Len(b) THEN BOfInt(carry)
    ELSE LET t == (IF i <= Len(a) THEN a[i] ELSE 0) + (IF i <= Len(b) THEN b[i] ELSE 0) + carry
         IN  <<t % Base>> \o BAdd(a, b, i + 1, t \div Base)

RECURSIVE BMul(_, _)
BMul(a, b) ==
    IF a = <<>> \/ b = <<>> THEN <<>>
    ELSE CHOOSE p \in { BAdd(low, IF rest = <<>> THEN <<>> ELSE <<0>> \o rest, 1, 0) :
                          low \in {BMulSmall(a, b[1], 0)}, rest \in {BMul(a, Tail(b))} } : TRUE

\* quotient and remainder of a by k, for 0 < k < Base
RECURSIVE BDivSmall(_, _)
BDivSmall(a, k) ==
    IF a = <<>> THEN [q |-> <<>>, r |-> 0]
    ELSE CHOOSE d \in { [q |-> BNorm(<<(hi.r * Base + a[1]) \div k>> \o hi.q),
                         r |-> (hi.r * Base + a[1]) % k] :
                          hi \in {BDivSmall(Tail(a), k)} } : TRUE

RECURSIVE SmallBitLen(_)
SmallBitLen(n) == IF n = 0 THEN 0 ELSE 1 + SmallBitLen(n \div 2)

\* the number of bits of a
BitLen(a) == IF a = <<>> THEN 0 ELSE LimbBits * (Len(a) - 1) + SmallBitLen(a[Len(a)])

\* a * 2^s
RECURSIVE BShl(_, _)
BShl(a, s) == IF a = <<>> \/ s = 0 THEN a
              ELSE IF s >= LimbBits THEN <<0>> \o BShl(a, s - LimbBits)
              ELSE BMulSmall(a, Pow2(s), 0)

\* a \div 2^s, with the two facts rounding needs about the bits shifted out:
\* half = the highest of them is set, sticky = some lower one is set
RECURSIVE BShr(_, _, _, _)
BShr(a, s, half, sticky) ==
    IF s = 0 THEN [q |-> a, half |-> half, sticky |-> sticky]
    ELSE CHOOSE r \in { BShr(d.q, s - j, d.r >= Pow2(j - 1),
                             sticky \/ half \/ (d.r % Pow2(j - 1) # 0)) :
                          d \in {BDivSmall(a, Pow2(Min(s, LimbBits - 1)))},
                          j \in {Min(s, LimbBits - 1)} } : TRUE

\* a < b
RECURSIVE BLess(_, _)
BLess(a, b) ==
    IF Len(a) # Len(b) THEN Len(a) < Len(b)
    ELSE IF a = <<>> THEN FALSE
    ELSE IF a[Len(a)] # b[Len(b)] THEN a[Len(a)] < b[Len(b)]
    ELSE BLess(SubSeq(a, 1, Len(a) - 1), SubSeq(b, 1, Len(b) - 1))

\* a float is sign * m * 2^e; m has Precision bits, or is zero
FZero == [sign |-> 1, m |-> <<>>, e |-> 0]

\* the float nearest to sign * (p + rest) * 2^e, where 0 <= rest < 1 and rest # 0
\* iff inexact (ties go to the even significand)
FRound(sign, p0, e, inexact) ==
    CHOOSE x \in
      { IF p = <<>> THEN FZero
        ELSE IF BitLen(p) <= Precision
        THEN [sign |-> sign, m |-> BShl(p, Precision - BitLen(p)),
              e |-> e - (Precision - BitLen(p))]
        ELSE CHOOSE y \in
               { IF BitLen(m) > Precision
                 THEN [sign |-> sign, m |-> BDivSmall(m, 2).q, e |-> e + s + 1]
                 ELSE [sign |-> sign, m |-> m, e |-> e + s] :
                   s \in {BitLen(p) - Precision},
                   m \in { IF d.half /\ (d.sticky \/ d.q[1] % 2 = 1)
                           THEN BNorm(BAdd(d.q, <<1>>, 1, 0)) ELSE d.q :
                             d \in {BShr(p, BitLen(p) - Precision, FALSE, inexact)} } } : TRUE
        : p \in {p0} } : TRUE

\* float(n) of an int
float_of(n) == CHOOSE x \in { FRound(IF v < 0 THEN -1 ELSE 1, BOfInt(Abs(v)), 0, FALSE) :
                                v \in {n} } : TRUE

\* a * b
fmul(a, b) == CHOOSE z \in { FRound(x.sign * y.sign, BMul(x.m, y.m), x.e + y.e, FALSE) :
                               x \in {a}, y \in {b} } : TRUE

\* a / k for an int 0 < k < Base
GuardBits == 60
fdiv(a, k) == CHOOSE z \in { CHOOSE r \in { FRound(x.sign, d.q, x.e - GuardBits, d.r # 0) :
                                              d \in { CHOOSE d \in { BDivSmall(p, k) :
                                                         p \in {BShl(x.m, GuardBits)} } : TRUE } } : TRUE :
                               x \in {a} } : TRUE

\* the float a decimal literal num/den denotes, e.g. 0.85 as 85/100
FloatLit(num, den) == fdiv(float_of(num), den)

\* x < y
fless(x, y) ==
    LET mag(a, b) == IF a.m = <<>> THEN b.m # <<>>
                     ELSE IF b.m = <<>> THEN FALSE
                     ELSE a.e < b.e \/ (a.e = b.e /\ BLess(a.m, b.m))
    IN  IF x.sign = 1 /\ y.sign = 1 THEN mag(x, y)
        ELSE IF x.sign = -1 /\ y.sign = -1 THEN mag(y, x)
        ELSE x.sign = -1

\* max(a, b): the first of the two unless the second is greater
fmax(a, b) == CHOOSE z \in { IF fless(x, y) THEN y ELSE x : x \in {a}, y \in {b} } : TRUE

\* int(a): truncation toward zero
int_of(a) ==
    CHOOSE n \in { CHOOSE n \in { x.sign * BToInt(p) :
                                    p \in { IF x.m = <<>> THEN <<>>
                                            ELSE IF x.e >= 0 THEN BShl(x.m, x.e)
                                            ELSE BShr(x.m, -(x.e), FALSE, FALSE).q } } : TRUE :
                     x \in {a} } : TRUE

---------------------------------------------------------------------------
(* HealthAgent: the calculations; weights, heights and ages are whole numbers *)

\* round(num/den, 0) for num >= 0, den > 0, halves going to the even neighbour
RoundHalfEven(num, den) ==
    LET q == num \div den
        r == num % den
    IN  IF 2 * r < den THEN q
        ELSE IF 2 * r > den THEN q + 1
        ELSE IF q % 2 = 0 THEN q ELSE q + 1

\* calculate_bmi(weight, height_cm): the bmi in 1/100 and its category
calculate_bmi(weight, height_cm) ==
    IF weight <= 0 \/ height_cm <= 0 THEN [bmi |-> 0, category |-> "Normal"]
    ELSE LET bmi == RoundHalfEven(weight * 1000000, height_cm * height_cm)
         IN  [bmi |-> bmi,
              category |-> IF bmi < 1850 THEN "Underweight"
                           ELSE IF bmi < 2500 THEN "Normal"
                           ELSE IF bmi < 3000 THEN "Overweight"
                           ELSE "Obese"]

\* calculate_bmr with the constant of men used for everyone
calculate_bmr_male_only(weight, height_cm, age, gender) ==
    LET base == (1000 * weight) + (625 * height_cm) - (500 * age)
    IN  Trunc(base + 500, 100)

\* calculate_bmr(weight, height_cm, age, gender)
calculate_bmr(weight, height_cm, age, gender) ==
    LET base == (1000 * weight) + (625 * height_cm) - (500 * age)
    IN  Trunc(IF gender = PyEnum("Gender", sMale) THEN base + 500 ELSE base - 16100, 100)

\* the activity multipliers of calculate_tdee, as the decimal literals num/1000
multipliers == [a \in EnumValues["ActivityLevel"] |->
                  CASE a = sSedentary -> FloatLit(1200, 1000)
                    [] a = sLightlyActive -> FloatLit(1375, 1000)
                    [] a = sModeratelyActive -> FloatLit(1550, 1000)
                    [] a = sVeryActive -> FloatLit(1725, 1000)
                    [] a = sExtraActive -> FloatLit(1900, 1000)]

\* calculate_tdee(bmr, activity_level): multipliers is keyed by ActivityLevel members
calculate_tdee(bmr, activity_level) ==
    IF activity_level.cls = "ActivityLevel"
    THEN Return(int_of(fmul(float_of(bmr), multipliers[activity_level.e])))
    ELSE Raise("KeyError")

\* calculate_adjusted_calories without the order of its adjustments: the BMI
\* rule is applied before the age rule
calculate_adjusted_calories_bmi_first(tdee, goal, age, bmi_category) ==
    LET c0 == float_of(tdee)
        c1 == IF goal = PyEnum("Goal", sWeightLoss) THEN fmul(c0, FloatLit(85, 100))
              ELSE IF goal = PyEnum("Goal", sMuscleGain) THEN fmul(c0, FloatLit(115, 100))
              ELSE c0
        c2 == IF bmi_category = "Underweight"
              THEN fmax(c1, fmul(float_of(tdee), FloatLit(11, 10)))
              ELSE IF bmi_category \in {"Overweight", "Obese"} /\ goal = PyEnum("Goal", sWeightLoss)
              THEN fmul(c1, FloatLit(95, 100))
              ELSE c1
        c3 == IF age > 40 THEN fmul(c2, FloatLit(95, 100))
              ELSE IF 18 <= age /\ age <= 25 /\ goal = PyEnum("Goal", sMuscleGain)
              THEN fmul(c2, FloatLit(105, 100))
              ELSE c2
    IN  int_of(c3)

\* calculate_adjusted_calories(tdee, goal, age, bmi_category)
calculate_adjusted_calories(tdee, goal, age, bmi_category) ==
    LET c0 == float_of(tdee)
        c1 == IF goal = PyEnum("Goal", sWeightLoss) THEN fmul(c0, FloatLit(85, 100))
              ELSE IF goal = PyEnum("Goal", sMuscleGain) THEN fmul(c0, FloatLit(115, 100))
              ELSE c0
        c2 == IF age > 40 THEN fmul(c1, FloatLit(95, 100))
              ELSE IF 18 <= age /\ age <= 25 /\ goal = PyEnum("Goal", sMuscleGain)
              THEN fmul(c1, FloatLit(105, 100))
              ELSE c1
        c3 == IF bmi_category = "Underweight"
              THEN fmax(c2, fmul(float_of(tdee), FloatLit(11, 10)))
              ELSE IF bmi_category \in {"Overweight", "Obese"} /\ goal = PyEnum("Goal", sWeightLoss)
              THEN fmul(c2, FloatLit(95, 100))
              ELSE c2
    IN  int_of(c3)

\* the ratio tuples of calculate_macros with a maintenance split of 30/50/25
macro_ratios_heavy(goal) ==
    IF goal = PyEnum("Goal", sWeightLoss) THEN <<30, 40, 30>>
    ELSE IF goal = PyEnum("Goal", sMuscleGain) THEN <<30, 50, 20>>
    ELSE <<30, 50, 25>>

\* the ratio tuples of calculate_macros, in 1/100
macro_ratios(goal) ==
    IF goal = PyEnum("Goal", sWeightLoss) THEN <<30, 40, 30>>
    ELSE IF goal = PyEnum("Goal", sMuscleGain) THEN <<30, 50, 20>>
    ELSE <<25, 50, 25>>

\* calculate_macros(calories, goal)
calculate_macros(calories, goal) ==
    LET ratios == macro_ratios(goal)
        grams(k, per_gram) ==
            int_of(fdiv(fmul(float_of(calories), FloatLit(ratios[k], 100)), per_gram))
    IN  [protein_g |-> grams(1, 4),
         carbs_g   |-> grams(2, 4),
         fats_g    |-> grams(3, 9)]

\* the body of analyze_user's try block: what it returns or raises
analyze_user_try(profile) ==
    LET weight == number_of(Get(profile, "weight", PyInt(0)))
        height == number_of(Get(profile, "height", PyInt(0)))
        age == number_of(Get(profile, "age", PyInt(25)))
        gender == normalize_enum(Get(profile, "gender", PyNone), "Gender",
                                 PyEnum("Gender", sMale))
        activity == normalize_enum(Get(profile, "activity_level", PyNone), "ActivityLevel",
                                   PyEnum("ActivityLevel", sModeratelyActive))
        goal == normalize_enum(Get(profile, "goal", PyNone), "Goal",
                               PyEnum("Goal", sMaintenance))
    IN  IF Raised(weight) THEN weight
        ELSE IF Raised(height) THEN height
        ELSE IF Raised(age) THEN age
        ELSE
        LET bmi_data == calculate_bmi(weight.returns, height.returns)
            bmr == calculate_bmr(weight.returns, height.returns, age.returns, gender)
            analysis(tdee, target_calories, macros) ==
                Return([biometrics |-> [bmi |-> bmi_data.bmi,
                                        bmi_category |-> bmi_data.category,
                                        bmr |-> bmr,
                                        tdee |-> tdee],
                        targets |-> [calories |-> target_calories,
                                     protein |-> macros.protein_g,
                                     carbs |-> macros.carbs_g,
                                     fats |-> macros.fats_g]])
        IN  CHOOSE out \in
              { IF Raised(tdee) THEN tdee
                ELSE CHOOSE ok \in
                       { CHOOSE ok \in
                           { analysis(tdee.returns, target_calories, macros) :
                               macros \in {calculate_macros(target_calories, goal)} } : TRUE
                         : target_calories \in
                               {calculate_adjusted_calories(tdee.returns, goal, age.returns,
                                                            bmi_data.category)} } : TRUE
                : tdee \in {calculate_tdee(bmr, activity)} } : TRUE

\* analyze_user without its exception handler
analyze_user_unguarded(profile) == analyze_user_try(profile)

\* analyze_user(user_profile): any exception of the body is logged and {} returned
analyze_user(profile) ==
    CHOOSE out \in { IF Raised(tried) THEN Return(EmptyDict) ELSE tried :
                       tried \in {analyze_user_try(profile)} } : TRUE

---------------------------------------------------------------------------
(* RecommendationEngine.generate_plan *)

NumDays == 7

sCouldNotAnalyze ==
    <<"C","o","u","l","d"," ","n","o","t"," ","a","n","a","l","y","z","e"," ",
      "h","e","a","l","t","h"," ","m","e","t","r","i","c","s","."," ","C","h",
      "e","c","k"," ","i","n","p","u","t"," ","d","a","t","a",".">>
sUnexpected ==
    <<"A","n"," ","u","n","e","x","p","e","c","t","e","d"," ","e","r","r","o",
      "r"," ","o","c","c","u","r","r","e","d"," ","w","h","i","l","e"," ","g",
      "e","n","e","r","a","t","i","n","g"," ","y","o","u","r"," ","p","l","a",
      "n",".">>
sVegDefault == <<"V","e","g">>

\* day_label with the days counted down
day_label_back(d) == <<"Day", NumDays + 1 - d>>

\* f"Day {day}"
day_label(d) == <<"Day", d>>

MealNames == {"Breakfast", "Lunch", "Dinner"}

\* Round1 cutting the second decimal off
Round1_down(x) == 10 * (x \div 10)

\* round(x, 1) of a non-negative amount counted in 1/100
Round1(x) == 10 * RoundHalfEven(x, 10)

\* _aggregate_daily_macros(daily_meals)
aggregate_daily_macros(meals) ==
    LET macros(m) == Get(meals[m], "macro_summary", EmptyDict)
        total(k) == SumOver([m \in MealNames |-> Get(macros(m), k, 0)], MealNames)
    IN  [protein |-> Round1(total("protein")),
         carbs   |-> Round1(total("carbs")),
         fats    |-> Round1(total("fats"))]

\* the day entry generate_plan stores for a day's meals
day_entry(meals) ==
    [meals |-> meals,
     calories |-> SumOver([m \in MealNames |-> meals[m].total_calories], MealNames),
     macros |-> aggregate_daily_macros(meals)]

\* self.nutrition_agent.recommend_meal_plan(diet_preference=..., total_calories=...)
\* as generate_plan calls it: what the call can return or raise
recommend_call(rows, diet_preference, total_calories) ==
    IF diet_preference.t # "str" THEN {Raise("AttributeError")}
    ELSE {[returns |-> r.out, writes |-> r.writes] :
             r \in recommend_meal_plan_on(rows, diet_preference.s, total_calories)}

\* the arguments of the day's recommend_meal_plan call, were the target taken
\* from the calories of the day planned before
plan_args_fed_back(profile, analysis, plan, d) ==
    [diet_preference |-> Get(profile, "diet_preference", PyStr(sVegDefault)),
     total_calories |-> IF d > 1 THEN plan[day_label(d - 1)].calories
                        ELSE analysis.targets.calories]

\* the arguments of the day's recommend_meal_plan call: diet_pref and target_calories
\* are read once, before the loop
plan_args(profile, analysis, plan, d) ==
    [diet_preference |-> Get(profile, "diet_preference", PyStr(sVegDefault)),
     total_calories |-> analysis.targets.calories]

\* generate_plan(user_profile) is entered
GeneratePlan(profile) ==
    /\ pc \in {"idle", "done"}
    /\ pc' = "analyze"
    /\ user_profile' = profile
    /\ health_analysis' = EmptyDict
    /\ day' = 0
    /\ daily_meals' = EmptyDict
    /\ weekly_plan' = EmptyDict
    /\ calls' = <<>>
    /\ passed' = <<>>
    /\ result' = EmptyDict
    /\ UNCHANGED <<df, client, ret>>

\* STEP 1: analyze_user, and the return when the analysis is empty
AnalyzeUser ==
    /\ pc = "analyze"
    /\ calls' = Append(calls, "analyze_user")
    /\ \E r \in {analyze_user(user_profile)} :
           IF Raised(r)
           THEN /\ result' = [error |-> sUnexpected]
                /\ pc' = "done"
                /\ UNCHANGED <<health_analysis, day>>
           ELSE /\ health_analysis' = r.returns
                /\ IF r.returns = EmptyDict
                   THEN /\ result' = [error |-> sCouldNotAnalyze]
                        /\ pc' = "done"
                        /\ day' = day
                   ELSE /\ result' = result
                        /\ pc' = "plan"
                        /\ day' = 1
    /\ UNCHANGED <<df, client, ret, user_profile, daily_meals, weekly_plan, passed>>

\* STEP 2: one turn of the loop over the days
PlanDay ==
    /\ pc = "plan"
    /\ calls' = Append(calls, "recommend_meal_plan")
    /\ LET args == plan_args(user_profile, health_analysis, weekly_plan, day)
       IN
       /\ passed' = Append(passed, args)
       /\ \E r \in recommend_call(df, args.diet_preference, args.total_calories) :
          IF Raised(r)
          THEN /\ result' = [error |-> sUnexpected]
               /\ pc' = "done"
               /\ UNCHANGED <<df, daily_meals, weekly_plan, day>>
          ELSE /\ daily_meals' = r.returns
               /\ df' = catalog_after(df, r.writes)
               /\ IF "error" \in DOMAIN r.returns
                  THEN /\ result' = [error |-> r.returns.error]
                       /\ pc' = "done"
                       /\ UNCHANGED <<weekly_plan, day>>
                  ELSE /\ weekly_plan' = weekly_plan @@ (day_label(day) :> day_entry(r.returns))
                       /\ result' = result
                       /\ IF day = NumDays
                          THEN pc' = "explain" /\ day' = day
                          ELSE pc' = "plan" /\ day' = day + 1
    /\ UNCHANGED <<client, ret, user_profile, health_analysis>>

\* STEP 3 and STEP 4: explain_plan(weekly_plan, user_profile, targets), then the
\* final response; an exception of the call ends in generate_plan's handler
ExplainPlan ==
    /\ pc = "explain"
    /\ calls' = Append(calls, "explain_plan")
    /\ \E api \in ApiOutcomes :
          LET r == explain_plan(<<weekly_plan, user_profile, health_analysis.targets>>,
                                client, api)
          IN  IF Raised(r)
              THEN result' = [error |-> sUnexpected]
              ELSE result' = [user_profile |-> user_profile,
                              biometrics |-> health_analysis.biometrics,
                              nutritional_targets |-> health_analysis.targets,
                              weekly_plan |-> weekly_plan,
                              ai_insight |-> r.returns]
    /\ pc' = "done"
    /\ UNCHANGED <<df, client, ret, user_profile, health_analysis, day, daily_meals,
                   weekly_plan, passed>>

---------------------------------------------------------------------------
(* Inputs *)

\* the catalogs generate_plan is run on
EngineCatalogs == { <<rDal, rRice>>,
                    <<rEggCurry, rRice>>,
                    <<rChicken, rTofu>>,
                    <<rTea, rDal, rChicken>>,
                    <<rDal, rRice, rTofu, rSalad>> }

\* the catalogs recommend_meal_plan is called on directly: up to MaxRows rows
\* of the pool, in the pool's order (the order of the rows decides nothing)
Catalogs ==
    UNION { { [k \in 1..n |-> FoodPool[c[k]]] :
                c \in { c \in [1..n -> 1..Len(FoodPool)] :
                           \A k \in 1..(n - 1) : c[k] <= c[k + 1] } }
            : n \in 1..MaxRows }

\* the diet preferences of the user interface, and one with blanks around it
DietInputs == { <<"V","e","g">>, <<"N","o","n","-","V","e","g">>,
                <<"V","e","g","a","n">>, <<" ","v","e","g","a","n"," ">> }

\* daily calorie targets of direct calls, in kcal
TargetInputs == {875, 1200}

Profile(w, a, g, act, goal, diet) ==
    [name |-> PyStr(<<"U","s","e","r">>), weight |-> w, height |-> PyInt(170), age |-> a,
     gender |-> g, activity_level |-> act, goal |-> goal, diet_preference |-> diet]

\* the profiles generate_plan is called with
ProfileInputs ==
    { Profile(w, a, g, act, goal, diet) :
        w \in {PyInt(70), PyInt(50), PyStr(<<"a","b","c">>)},
        a \in {PyInt(25), PyStr(<<"4","5">>), PyNone},
        g \in {PyStr(<<"M","a","l","e">>), PyStr(<<"F","e","m","a","l","e">>)},
        act \in {PyStr(<<"M","o","d","e","r","a","t","e","l","y"," ","A","c","t","i","v","e">>), PyStr(sMaintain)},
        goal \in {PyStr(<<"W","e","i","g","h","t"," ","L","o","s","s">>), PyStr(sMaintain), PyNone},
        diet \in {PyStr(<<"V","e","g">>), PyStr(<<"V","e","g","a","n">>),
                  PyStr(<<"N","o","n","-","V","e","g">>)} }
    \cup {EmptyDict}

\* the weekly plans and profiles explain_plan is called with directly
PlanInputs == { EmptyDict, day_label(1) :> [calories |-> 1500] }

GoalInputs == { PyStr(sWeightLoss), PyStr(<<"M","u","s","c","l","e"," ","G","a","i","n">>), PyNone, PyInt(3),
                PyEnum("Goal", sMaintenance) }

ExplainProfiles == { [goal |-> g, activity_level |-> a] :
                        g \in GoalInputs,
                        a \in {PyStr(<<"S","e","d","e","n","t","a","r","y">>), PyStr(<<"V","e","r","y"," ","A","c","t","i","v","e">>)} }
                   \cup { [activity_level |-> PyStr(<<"S","e","d","e","n","t","a","r","y">>)], EmptyDict }

---------------------------------------------------------------------------
(* Direct calls of the agents' methods *)

NoCall == [op |-> "none"]

\* the caller takes the value the direct call returned
TakeResult ==
    /\ ret # NoCall
    /\ ret' = NoCall
    /\ UNCHANGED <<df, client>>
    /\ UNCHANGED engineVars

\* nutrition_agent.recommend_meal_plan(diet_preference, total_calories)
CallRecommendMealPlan(diet_preference, total_calories) ==
    /\ ret = NoCall
    /\ \E r \in recommend_meal_plan_on(df, diet_preference, total_calories) :
          /\ ret' = [op |-> "recommend_meal_plan", diet_preference |-> diet_preference,
                     total_calories |-> total_calories, out |-> r.out]
          /\ df' = catalog_after(df, r.writes)
    /\ UNCHANGED client
    /\ UNCHANGED engineVars

\* llm_agent.explain_plan(weekly_plan, user_profile), the model service doing api
CallExplainPlan(plan, profile, api) ==
    /\ ret' = [op |-> "explain_plan", plan |-> plan, profile |-> profile, api |-> api,
               out |-> explain_plan(<<plan, profile>>, client, api)]
    /\ UNCHANGED <<df, client>>
    /\ UNCHANGED engineVars

---------------------------------------------------------------------------
(* Specifications *)

InitEngine ==
    /\ pc = "idle"
    /\ user_profile = EmptyDict
    /\ health_analysis = EmptyDict
    /\ day = 0
    /\ daily_meals = EmptyDict
    /\ weekly_plan = EmptyDict
    /\ calls = <<>>
    /\ passed = <<>>
    /\ result = EmptyDict

\* the engine after construction: a loaded catalog, a client or none
Init ==
    /\ df \in EngineCatalogs
    /\ client \in {"none", "ready"}
    /\ ret = NoCall
    /\ InitEngine

Next ==
    \/ \E profile \in ProfileInputs : GeneratePlan(profile)
    \/ AnalyzeUser
    \/ PlanDay
    \/ ExplainPlan

Spec == Init /\ [][Next]_vars

\* the NutritionAgent alone: any catalog of up to MaxRows rows, and a lunch
\* menu in which a curry has more than TopK breads and rices to go with
InitNutrition ==
    /\ df \in Catalogs \cup
             { <<rDal, rEggCurry, rRice,
                 Row(<<"r","o","t","i">>, sVeg, sLunch, "flatbread", Kcal(120), 300, 2000, 350),
                 Row(<<"n","a","a","n">>, sVeg, sLunch, "flatbread", Kcal(150), 450, 2500, 400),
                 Row(<<"p","a","r","a","t","h","a">>, sVeg, sLunch, "flatbread", Kcal(100), 250,
                     1500, 500)>> }
    /\ client = "none"
    /\ ret = NoCall
    /\ InitEngine

NextNutrition ==
    \/ \E diet_preference \in DietInputs, total_calories \in TargetInputs :
          CallRecommendMealPlan(diet_preference, total_calories)
    \/ TakeResult

SpecNutrition == InitNutrition /\ [][NextNutrition]_vars

\* the LLMAgent alone
InitLLM ==
    /\ df = <<rDal, rRice>>
    /\ client \in {"none", "ready"}
    /\ ret = NoCall
    /\ InitEngine

NextLLM ==
    \E plan \in PlanInputs, profile \in ExplainProfiles, api \in ApiOutcomes :
        CallExplainPlan(plan, profile, api)

SpecLLM == InitLLM /\ [][NextLLM]_vars

\* the defaults analyze_user passes to _normalize_enum
enum_default == [Gender        |-> PyEnum("Gender", sMale),
                 ActivityLevel |-> PyEnum("ActivityLevel", sModeratelyActive),
                 Goal          |-> PyEnum("Goal", sMaintenance)]

\* the values _normalize_enum is called with directly
EnumInputs ==
    { PyStr(<<"M","a","l","e">>), PyStr(sFemale), PyStr(<<" ","W","e","i","g","h","t"," ","L","o","s","s"," ">>),
      PyStr(<<"V","e","r","y"," ","A","c","t","i","v","e">>), PyStr(sMaintenance), PyStr(sMaintain),
      PyStr(<<"M","a","i","n","t","a","i","n">>), PyStr(<<"k","e","t","o">>), PyStr(<<>>),
      PyNone, PyInt(3), PyEnum("Goal", sMuscleGain), PyEnum("Gender", sFemale),
      PyEnum("ActivityLevel", sSedentary) }


AgeInputs == {17, 18, 25, 26, 40, 41, 60}
GoalMembers == {PyEnum("Goal", g) : g \in EnumValues["Goal"]}


\* health_agent._normalize_enum(value, enum_class, default)
CallNormalizeEnum(value, enum_class) ==
    /\ ret = NoCall
    /\ ret' = [op |-> "_normalize_enum", value |-> value, enum_class |-> enum_class,
               out |-> normalize_enum(value, enum_class, enum_default[enum_class])]
    /\ UNCHANGED <<df, client>>
    /\ UNCHANGED engineVars

\* health_agent.calculate_bmr(weight, height_cm, age, gender)
CallCalculateBmr(weight, height_cm, age, gender) ==
    /\ ret = NoCall
    /\ ret' = [op |-> "calculate_bmr", weight |-> weight, height_cm |-> height_cm,
               age |-> age, gender |-> gender,
               out |-> calculate_bmr(weight, height_cm, age, gender)]
    /\ UNCHANGED <<df, client>>
    /\ UNCHANGED engineVars

\* health_agent.calculate_adjusted_calories(tdee, goal, age, bmi_category)
CallCalculateAdjustedCalories(tdee, goal, age, bmi_category) ==
    /\ ret = NoCall
    /\ ret' = [op |-> "calculate_adjusted_calories", tdee |-> tdee, goal |-> goal,
               age |-> age, bmi_category |-> bmi_category,
               out |-> calculate_adjusted_calories(tdee, goal, age, bmi_category)]
    /\ UNCHANGED <<df, client>>
    /\ UNCHANGED engineVars

\* health_agent.calculate_macros(calories, goal)
CallCalculateMacros(calories, goal) ==
    /\ ret = NoCall
    /\ ret' = [op |-> "calculate_macros", calories |-> calories, goal |-> goal,
               out |-> calculate_macros(calories, goal)]
    /\ UNCHANGED <<df, client>>
    /\ UNCHANGED engineVars

\* health_agent.analyze_user(user_profile)
CallAnalyzeUser(profile) ==
    /\ ret = NoCall
    /\ ret' = [op |-> "analyze_user", profile |-> profile, out |-> analyze_user(profile)]
    /\ UNCHANGED <<df, client>>
    /\ UNCHANGED engineVars

\* the HealthAgent alone: its methods are called one after the other
InitHealth ==
    /\ df = <<rDal, rRice>>
    /\ client = "none"
    /\ ret = NoCall
    /\ InitEngine

NextHealth ==
    \/ \E value \in EnumInputs, enum_class \in {"Gender", "ActivityLevel", "Goal"} : CallNormalizeEnum(value, enum_class)
    \/ \E weight \in {0, 50, 70, 95}, height_cm \in {0, 160, 170}, age \in AgeInputs,
          gender \in {PyEnum("Gender", sMale), PyEnum("Gender", sFemale)} : CallCalculateBmr(weight, height_cm, age, gender)
    \/ \E tdee \in {-186, 0, 1, 9, 100, 1500, 1999, 2000, 2001, 2545, 3000}, goal \in GoalMembers, age \in AgeInputs,
          bmi_category \in {"Underweight", "Normal", "Overweight", "Obese"} :
            CallCalculateAdjustedCalories(tdee, goal, age, bmi_category)
    \/ \E calories \in {-186, 0, 1, 3, 8, 9, 17, 1700, 1724, 1999, 2000, 2163, 2200, 3000}, goal \in GoalMembers : CallCalculateMacros(calories, goal)
    \/ \E profile \in ProfileInputs : CallAnalyzeUser(profile)
    \/ TakeResult

SpecHealth == InitHealth /\ [][NextHealth]_vars

---------------------------------------------------------------------------
(* Vocabulary of the properties *)

\* the non-veg keywords of the dietary safety rule
NonVegKeywords ==
    { <<"c","h","i","c","k","e","n">>,
      <<"f","i","s","h">>,
      <<"e","g","g">>,
      <<"m","u","t","t","o","n">>,
      <<"b","e","e","f">>,
      <<"p","o","r","k">>,
      <<"l","a","m","b">>,
      <<"m","e","a","t">>,
      <<"b","a","c","o","n">>,
      <<"p","r","a","w","n">>,
      <<"d","u","c","k">> }

\* the whole words of a name: split on blanks, non-letters dropped, lower-cased
RECURSIVE WordsFrom(_, _, _)
WordsFrom(s, i, cur) ==
    LET done == IF cur = <<>> THEN {} ELSE {cur}
    IN  IF i > Len(s) THEN done
        ELSE IF s[i] = " " THEN done \cup WordsFrom(s, i + 1, <<>>)
        ELSE IF IsLetter(s[i]) THEN WordsFrom(s, i + 1, Append(cur, LowerCh(s[i])))
        ELSE WordsFrom(s, i + 1, cur)

Words(s) == WordsFrom(s, 1, <<>>)

\* the last direct call was a recommend_meal_plan that returned a day's meals
PlannedDay == ret.op = "recommend_meal_plan" /\ "error" \notin DOMAIN ret.out

\* the meals of the day the last direct call returned
Meals == {ret.out[m] : m \in MealNames}

ItemsOf(meal) == {meal.items[k] : k \in 1..Len(meal.items)}

\* the catalog rows a listed item can have been made from
SourceRows(item) ==
    {i \in 1..Len(df) : /\ Trunc(df[i].calories, Unit) = item.calories
                        /\ format_item(df[i], item.role) = item}

\* the catalog subset the composer was given for a slot of the last direct call
SlotRows(m) ==
    time_df(df, diet_df(df, diet_pref_of(ret.diet_preference)), splits[m].meal_name)

\* C1: in a plan for the veg preference no listed item's name contains a
\* non-veg keyword as a whole word
C1_VegSafety ==
    (PlannedDay /\ diet_pref_of(ret.diet_preference) = sVeg) =>
        \A meal \in Meals : \A item \in ItemsOf(meal) :
            Words(item.name) \cap NonVegKeywords = {}

\* C2: every listed item comes from a row whose diet class equals the
\* normalized preference exactly
C2_ExactDietClass ==
    PlannedDay =>
        \A meal \in Meals : \A item \in ItemsOf(meal) : \A i \in SourceRows(item) :
            df[i].diet = diet_pref_of(ret.diet_preference)

\* the diet preference generate_plan uses for the profile
EnginePref == Get(user_profile, "diet_preference", PyStr(sVegDefault))

\* some row of the catalog has exactly the profile's normalized diet class
SomeRowMatches ==
    /\ EnginePref.t = "str"
    /\ \E i \in 1..Len(df) : df[i].diet = diet_pref_of(EnginePref.s)

\* no row of the catalog has the profile's normalized diet class
NoRowMatches ==
    /\ EnginePref.t = "str"
    /\ \A i \in 1..Len(df) : df[i].diet # diet_pref_of(EnginePref.s)

\* the result is a complete plan: seven labelled days of three meals each,
\* with biometrics, targets and narrative
CompletePlan(r) ==
    /\ "error" \notin DOMAIN r
    /\ {"biometrics", "nutritional_targets", "weekly_plan", "ai_insight"} \subseteq DOMAIN r
    /\ DOMAIN r.weekly_plan = {day_label(d) : d \in 1..7}
    /\ \A d \in 1..7 : DOMAIN r.weekly_plan[day_label(d)].meals = MealNames

\* C3: for a profile the analysis accepts and a catalog with a row of the
\* requested diet class, generate_plan ends with a complete 7-day plan
C3_SuccessfulGeneration ==
    (pc = "done" /\ health_analysis # EmptyDict /\ SomeRowMatches) => CompletePlan(result)

\* C4: a composed meal has at most 2 items and no two items of the same name
C4_AtMostTwoDistinct ==
    PlannedDay =>
        \A meal \in Meals :
            /\ Len(meal.items) <= 2
            /\ \A j, k \in 1..Len(meal.items) :
                  j # k => meal.items[j].name # meal.items[k].name

\* C4 witness: a two-item meal whose Main shares its name with another row,
\* both of them rows the category rule allows as a Side
C4_Witness ==
    /\ PlannedDay
    /\ \E m \in MealNames :
          /\ Len(ret.out[m].items) = 2
          /\ \E i, j \in SlotRows(m) :
                /\ i # j
                /\ df[i].name = df[j].name
                /\ format_item(df[i], "Main") = ret.out[m].items[1]
                /\ {i, j} \subseteq side_pool(df, SlotRows(m), i)

\* the sum of a field over the items listed in a meal
Listed(meal, field) ==
    SumOver([k \in 1..Len(meal.items) |-> meal.items[k][field]], 1..Len(meal.items))

\* the macro summary of a meal as its readers take it: absent counts as zeros
SummaryOf(meal) ==
    LET ms == Get(meal, "macro_summary", EmptyDict)
    IN  [protein |-> Get(ms, "protein", 0), carbs |-> Get(ms, "carbs", 0),
         fats |-> Get(ms, "fats", 0)]

MacrosAreSums(meal) ==
    SummaryOf(meal) = [protein |-> Listed(meal, "protein"), carbs |-> Listed(meal, "carbs"),
                       fats |-> Listed(meal, "fats")]

\* C5 as stated: a meal's total is exactly the sum of the calorie fields of its
\* listed items, and its macro summary their elementwise sum
C5_ExactSum ==
    PlannedDay =>
        \A meal \in Meals :
            meal.total_calories = Listed(meal, "calories") /\ MacrosAreSums(meal)

\* the ways to name one catalog row per listed item of a meal
Sourcings(meal) ==
    { src \in [1..Len(meal.items) -> 1..Len(df)] :
        \A k \in 1..Len(meal.items) : src[k] \in SourceRows(meal.items[k]) }

\* C5 amended: a meal's total is the truncation of the sum of the selected
\* rows' catalog calories, hence the listed sum or one more; the macro summary
\* of a meal with items is the elementwise sum; the empty meal has total 0 and
\* no macro summary
C5_TruncatedSum ==
    PlannedDay =>
        \A meal \in Meals :
            /\ \E src \in Sourcings(meal) :
                  meal.total_calories =
                      Trunc(SumOver([k \in 1..Len(meal.items) |-> df[src[k]].calories],
                                    1..Len(meal.items)), Unit)
            /\ meal.total_calories \in {Listed(meal, "calories"), Listed(meal, "calories") + 1}
            /\ MacrosAreSums(meal)
            /\ ("macro_summary" \in DOMAIN meal) <=> (meal.items # <<>>)

\* C5 witness: a two-item meal whose total is one more than the listed sum
C5_Witness ==
    /\ PlannedDay
    /\ \E meal \in Meals :
          Len(meal.items) = 2 /\ meal.total_calories = Listed(meal, "calories") + 1

\* C6 as stated: whenever the subset given to the composer is not empty, the
\* meal has a Main first and nothing but a Side after it
C6_MainUnlessEmpty ==
    PlannedDay =>
        \A m \in MealNames :
            SlotRows(m) # {} =>
                /\ Len(ret.out[m].items) >= 1
                /\ ret.out[m].items[1].role = "Main"
                /\ \A k \in 2..Len(ret.out[m].items) : ret.out[m].items[k].role = "Side"

\* the categories of the rows of a slot's subset a listed item can come from
CategoriesOf(m, item) == {df[i].category : i \in SourceRows(item) \cap SlotRows(m)}

\* C7 as stated: a Side's category is one the pairing table lists for the
\* Main's category, and a Main whose category is not in the table has no Side
C7_SideCompatible ==
    PlannedDay =>
        \A m \in MealNames :
            Len(ret.out[m].items) = 2 =>
                \A mc \in CategoriesOf(m, ret.out[m].items[1]) :
                    /\ mc \in DOMAIN pairing_rules
                    /\ CategoriesOf(m, ret.out[m].items[2]) \subseteq pairing_rules[mc]

\* C7 amended: when the Main's category is in the pairing table, a Side's
\* category is one the table lists for it
C7_SideCompatibleWhenRuled ==
    PlannedDay =>
        \A m \in MealNames :
            Len(ret.out[m].items) = 2 =>
                \A mc \in CategoriesOf(m, ret.out[m].items[1]) :
                    mc \in DOMAIN pairing_rules =>
                        CategoriesOf(m, ret.out[m].items[2]) \subseteq pairing_rules[mc]

\* C7 witness: a meal with a Side whose Main's category is in the pairing
\* table, composed from a subset that also holds a row of another category
C7_Witness ==
    /\ PlannedDay
    /\ \E m \in MealNames :
          /\ Len(ret.out[m].items) = 2
          /\ \E mc \in CategoriesOf(m, ret.out[m].items[1]) :
                /\ mc \in DOMAIN pairing_rules
                /\ \E i \in SlotRows(m) :
                      /\ df[i].category \notin pairing_rules[mc]
                      /\ Title(df[i].name) # ret.out[m].items[1].name

Range(f) == {f[k] : k \in DOMAIN f}

\* C8 as stated: when no row has the requested diet class, the planner's call
\* returns an error, no day is stored, and generate_plan's result is an error
\* and nothing else
C8_NoFoodForDiet ==
    (NoRowMatches /\ "recommend_meal_plan" \in Range(calls)) =>
        /\ "error" \in DOMAIN daily_meals
        /\ weekly_plan = EmptyDict
        /\ pc = "done"
        /\ DOMAIN result = {"error"}

\* parsing the profile's weight, height or age raises
ParseFails(profile) ==
    \/ Raised(number_of(Get(profile, "weight", PyInt(0))))
    \/ Raised(number_of(Get(profile, "height", PyInt(0))))
    \/ Raised(number_of(Get(profile, "age", PyInt(25))))

\* C9: analyze_user never raises; when parsing a profile field fails it
\* returns the empty result; on the empty result generate_plan ends with the
\* analysis error alone, having called neither the planner nor the narrative
\* generator
C9_AnalysisFailed ==
    ("analyze_user" \in Range(calls)) =>
        /\ (calls = <<"analyze_user">>) => result # [error |-> sUnexpected]
        /\ ParseFails(user_profile) => health_analysis = EmptyDict
        /\ health_analysis = EmptyDict =>
              /\ pc = "done"
              /\ calls = <<"analyze_user">>
              /\ result = [error |-> sCouldNotAnalyze]
              /\ weekly_plan = EmptyDict

\* C9 witness: generate_plan has ended on a profile whose weight does not parse
C9_Witness ==
    /\ pc = "done"
    /\ calls = <<"analyze_user">>
    /\ Raised(number_of(Get(user_profile, "weight", PyInt(0))))
    /\ result = [error |-> sCouldNotAnalyze]

\* the goal explain_plan formats for a profile whose goal is a string or missing
FormattedGoal(profile) == Title(ReplaceCh(Get(profile, "goal", PyStr(sHealth)).s, "_", " "))

\* C10 as stated: explain_plan returns a text for every input, and the
\* fallback text whenever there is no client, the model call fails or the
\* model answers nothing
C10_NeverRaises ==
    ret.op = "explain_plan" =>
        /\ ~Raised(ret.out)
        /\ (client = "none" \/ ret.api.kind = "fails" \/ ret.api.text = <<>>) =>
              ret.out.returns = fallback_text(FormattedGoal(ret.profile))

---------------------------------------------------------------------------
(* HealthAgent *)

\* C11 as stated: _normalize_enum returns a member of the enum class it was
\* asked for, whatever the value, and a profile whose weight, height and age
\* parse never makes analyze_user return the empty result
C11_LogAndDefault ==
    /\ ret.op = "_normalize_enum" =>
          /\ ret.out.t = "enum"
          /\ ret.out.cls = ret.enum_class
          /\ ret.out.e \in EnumValues[ret.enum_class]
    /\ (ret.op = "analyze_user" /\ ~ParseFails(ret.profile)) =>
          ret.out = analyze_user_try(ret.profile) /\ ret.out.returns # EmptyDict

\* C12: for a tdee >= 0 and the category Underweight, calculate_adjusted_calories
\* returns at least the truncation of tdee * 1.1, whatever the goal and the age
C12_UnderweightFloor ==
    (ret.op = "calculate_adjusted_calories" /\ ret.bmi_category = "Underweight"
        /\ ret.tdee >= 0) =>
        ret.out >= Trunc(ret.tdee * 11, 10)

\* C12 witness: tdee 2000, weight loss, age 41, Underweight: the goal and age
\* factors give 1615, the floor lifts it to 2200
C12_Witness ==
    /\ ret.op = "calculate_adjusted_calories"
    /\ ret.bmi_category = "Underweight"
    /\ ret.tdee = 2000
    /\ ret.goal = PyEnum("Goal", sWeightLoss)
    /\ ret.age = 41
    /\ ret.out = 2200

\* the factors of the adjustment rules in 1/20, and the adjusted calories they
\* give in exact arithmetic: goal, then age, then BMI, then truncation
GoalFactor(goal) ==
    IF goal = PyEnum("Goal", sWeightLoss) THEN 17
    ELSE IF goal = PyEnum("Goal", sMuscleGain) THEN 23
    ELSE 20

AgeFactor(goal, age) ==
    IF age > 40 THEN 19
    ELSE IF 18 <= age /\ age <= 25 /\ goal = PyEnum("Goal", sMuscleGain) THEN 21
    ELSE 20

OrderedAdjustment(tdee, goal, age, bmi_category) ==
    LET after_age == tdee * GoalFactor(goal) * AgeFactor(goal, age)      \* in 1/400
    IN  IF bmi_category = "Underweight"
        THEN Trunc(IF after_age >= tdee * 22 * 20 THEN after_age ELSE tdee * 22 * 20, 400)
        ELSE IF bmi_category \in {"Overweight", "Obese"} /\ goal = PyEnum("Goal", sWeightLoss)
        THEN Trunc(after_age * 19, 8000)
        ELSE Trunc(after_age, 400)

\* C13 as stated: calculate_adjusted_calories returns the truncation of tdee
\* times the goal factor, then the age factor, then the BMI rule, for every
\* tdee, goal, age and BMI category
C13_OrderedFactors ==
    ret.op = "calculate_adjusted_calories" =>
        ret.out = OrderedAdjustment(ret.tdee, ret.goal, ret.age, ret.bmi_category)

\* whether the last direct call is calculate_bmr(70, 170, 25, gender)
BmrExample ==
    /\ ret.op = "calculate_bmr"
    /\ ret.weight = 70
    /\ ret.height_cm = 170
    /\ ret.age = 25

\* C14 as stated: bmr(70 kg, 170 cm, 25, male) is 1674 and
\* bmr(70 kg, 170 cm, 25, female) is 1508
C14_SpecExamples ==
    BmrExample => ret.out = (IF ret.gender = PyEnum("Gender", sMale) THEN 1674 ELSE 1508)

\* C14: calculate_bmr returns the truncation of 10*w + 6.25*h - 5*age + 5 for
\* men and of 10*w + 6.25*h - 5*age - 161 for women, which is 1642 and 1476
\* for 70 kg, 170 cm and 25 years
C14_MifflinStJeor ==
    /\ ret.op = "calculate_bmr" =>
          ret.out = Trunc(40 * ret.weight + 25 * ret.height_cm - 20 * ret.age
                          + (IF ret.gender = PyEnum("Gender", sMale) THEN 20 ELSE -644), 4)
    /\ BmrExample => ret.out = (IF ret.gender = PyEnum("Gender", sMale) THEN 1642 ELSE 1476)

\* C14 witness: calculate_bmr(70, 170, 25, female) has returned 1476
C14_Witness ==
    /\ BmrExample
    /\ ret.gender = PyEnum("Gender", sFemale)
    /\ ret.out = 1476

\* the macro ratios of a goal in 1/100: protein, carbs, fats
GoalRatios(goal) ==
    IF goal = PyEnum("Goal", sWeightLoss) THEN [p |-> 30, c |-> 40, f |-> 30]
    ELSE IF goal = PyEnum("Goal", sMuscleGain) THEN [p |-> 30, c |-> 50, f |-> 20]
    ELSE [p |-> 25, c |-> 50, f |-> 25]

\* C15: calculate_macros returns the truncations of calories * p / 4,
\* calories * c / 4 and calories * f / 9 for the ratios of the goal; the ratios
\* of a goal sum to 1, and for calories >= 0 the grams carry no more than the
\* calories: 4 * protein_g + 4 * carbs_g + 9 * fats_g <= calories
C15_MacroSplit ==
    ret.op = "calculate_macros" =>
        LET r == GoalRatios(ret.goal)
        IN  /\ r.p + r.c + r.f = 100
            /\ ret.out.protein_g = Trunc(ret.calories * r.p, 400)
            /\ ret.out.carbs_g = Trunc(ret.calories * r.c, 400)
            /\ ret.out.fats_g = Trunc(ret.calories * r.f, 900)
            /\ ret.calories >= 0 =>
                  4 * ret.out.protein_g + 4 * ret.out.carbs_g + 9 * ret.out.fats_g
                      <= ret.calories

\* C15 witness: calculate_macros(2000, weight_loss) has returned 150 g of
\* protein, 200 g of carbs and 66 g of fats
C15_Witness ==
    /\ ret.op = "calculate_macros"
    /\ ret.calories = 2000
    /\ ret.goal = PyEnum("Goal", sWeightLoss)
    /\ ret.out = [protein_g |-> 150, carbs_g |-> 200, fats_g |-> 66]

---------------------------------------------------------------------------
(* NutritionAgent: the slots of a day *)

\* the rows of the catalog that are safe for the preference of the last direct
\* call and tagged with the slot: the diet class is the normalized preference,
\* and no non-veg keyword is in the name unless the preference is non-veg
DietSafeRows(m) ==
    {i \in 1..Len(df) :
        /\ df[i].diet = diet_pref_of(ret.diet_preference)
        /\ df[i].meal_time = Lower(splits[m].meal_name)
        /\ diet_pref_of(ret.diet_preference) = sNonVeg
              \/ Words(df[i].name) \cap NonVegKeywords = {}}

OnePerSlot ==
    /\ ret.op = "recommend_meal_plan"
    /\ \A m \in MealNames : Cardinality(DietSafeRows(m)) = 1

\* C16 as stated: on a catalog with exactly one diet-safe row per slot the
\* call has one possible result, and in it each slot's meal is that slot's row
\* as the Main and nothing else
C16_IdempotentOnSingletons ==
    OnePerSlot =>
        /\ recommend_meal_plan(df, ret.diet_preference, ret.total_calories) = {ret.out}
        /\ "error" \notin DOMAIN ret.out
        /\ \A m \in MealNames : \A i \in DietSafeRows(m) :
              ret.out[m].items = <<format_item(df[i], "Main")>>

\* C17 as stated: a meal without items has zero calories and carries a warning
\* flag
C17_EmptyMealWarning ==
    PlannedDay =>
        \A m \in MealNames :
            ret.out[m].items = <<>> =>
                /\ ret.out[m].total_calories = 0
                /\ "warning" \in DOMAIN ret.out[m]

\* the rows the diet filter of the last direct call kept, and those of them
\* tagged with the slot
FilteredRows == diet_df(df, diet_pref_of(ret.diet_preference))

TaggedRows(m) == {i \in FilteredRows : df[i].meal_time = Lower(splits[m].meal_name)}

\* the share of the daily target a slot gets, in 1/100
SlotShare == [Breakfast |-> 25, Lunch |-> 40, Dinner |-> 35]

\* the budget of a slot of the last direct call, in 1/Unit kcal
SlotBudget(m) == (ret.total_calories * SlotShare[m] * Unit) \div 100

\* C18: every item of a slot's meal comes from the diet-filtered rows tagged
\* with the slot when there is such a row, and from the diet-filtered catalog
\* otherwise; a Side is listed only when the slot's share of the target (0.25,
\* 0.40, 0.35) exceeds the Main's calories by more than 50
C18_SlotSubsets ==
    PlannedDay =>
        \A m \in MealNames :
            LET subset == IF TaggedRows(m) # {} THEN TaggedRows(m) ELSE FilteredRows
            IN  /\ \A item \in ItemsOf(ret.out[m]) : SourceRows(item) \cap subset # {}
                /\ Len(ret.out[m].items) = 2 =>
                      \E i \in SourceRows(ret.out[m].items[1]) \cap subset :
                          SlotBudget(m) - df[i].calories > Kcal(50)

\* C18 witness: a day in which one slot has tagged rows and a meal with a Side
\* from them, and another slot has no tagged row and a meal from the
\* diet-filtered catalog
C18_Witness ==
    /\ PlannedDay
    /\ \E m \in MealNames : TaggedRows(m) # {} /\ TaggedRows(m) # FilteredRows
                             /\ Len(ret.out[m].items) = 2
    /\ \E m \in MealNames : TaggedRows(m) = {} /\ ret.out[m].items # <<>>

---------------------------------------------------------------------------
(* RecommendationEngine: the targets *)

\* what analyze_user does for each profile generate_plan is called with
AnalysisOf == [profile \in ProfileInputs |-> analyze_user(profile)]

\* C19: every recommend_meal_plan call of a generate_plan run gets the
\* profile's diet preference and the calorie target analyze_user computed for
\* the profile, there are at most seven such calls, the analysis is not
\* changed by planning, and a result that carries nutritional targets carries
\* the computed ones
C19_TargetsOnce ==
    /\ Len(passed) <= NumDays
    /\ passed # <<>> => health_analysis = AnalysisOf[user_profile].returns
    /\ \A k \in 1..Len(passed) :
          passed[k] = [diet_preference |-> EnginePref,
                       total_calories |-> health_analysis.targets.calories]
    /\ "nutritional_targets" \in DOMAIN result =>
          /\ passed # <<>>
          /\ result.nutritional_targets = health_analysis.targets

\* C19 witness: seven days were planned with different totals on the first two
\* days, each on the same arguments
C19_Witness ==
    /\ Len(passed) = NumDays
    /\ pc = "explain"
    /\ weekly_plan[day_label(1)].calories # weekly_plan[day_label(2)].calories
    /\ \A k \in 1..NumDays : passed[k] = passed[1]

---------------------------------------------------------------------------
(* LLMAgent: what the narrative depends on *)

\* C20 as stated: what explain_plan sends to the model and what it returns do
\* not depend on the weekly plan
C20_NarrativeIgnoresMeals ==
    (ret.op = "explain_plan" /\ ~Raised(ret.out)) =>
        \A plan \in PlanInputs :
            explain_plan(<<plan, ret.profile>>, client, ret.api) = ret.out

---------------------------------------------------------------------------
(* The catalog *)

\* some meal of a stored day has a Side, so the call that composed it wrote a
\* "diff" column to the frame of its side candidates
SideComposed ==
    \E d \in DOMAIN weekly_plan : \E m \in MealNames :
        Len(weekly_plan[d].meals[m].items) = 2

\* C21: no step of generate_plan, a day's planning included, changes the
\* catalog: its rows, their fields and the set of columns stay as loaded
C21_CatalogImmutable == [][df' = df]_vars

\* C21 witness: a day is being planned after one whose meal has a Side was
\* composed, on a catalog whose rows have the columns they were loaded with
C21_Witness ==
    /\ SideComposed
    /\ day > 1
    /\ \A i \in 1..Len(df) :
          DOMAIN df[i] = DOMAIN Row(<<>>, <<>>, <<>>, "generic", 0, 0, 0, 0)

---------------------------------------------------------------------------
(* NutritionAgent: the Side *)

\* the rows of a slot's subset the Main of the slot's meal can have been
MainRows(m) == SourceRows(ret.out[m].items[1]) \cap SlotRows(m)

\* what the slot's budget leaves after the row as Main, in 1/Unit kcal
RemainingAfter(m, i) == SlotBudget(m) - df[i].calories

\* C22: when the slot's target minus the Main's calories is at most 50, the
\* Main exceeding the target included, the meal is the Main and nothing else
C22_NoRoomNoSide ==
    PlannedDay =>
        \A m \in MealNames :
            (/\ ret.out[m].items # <<>>
             /\ \A i \in MainRows(m) : RemainingAfter(m, i) <= Kcal(50)) =>
                /\ Len(ret.out[m].items) = 1
                /\ ret.out[m].items[1].role = "Main"

\* C22 witness: a day with a slot whose Main leaves exactly 50 and a slot
\* whose Main exceeds the target, each with a row that could have been a Side
C22_Witness ==
    /\ PlannedDay
    /\ \E m, n \in MealNames :
          /\ Len(ret.out[m].items) = 1 /\ Len(ret.out[n].items) = 1
          /\ \E i \in MainRows(m) :
                /\ RemainingAfter(m, i) = Kcal(50)
                /\ side_candidates(df, SlotRows(m), i) # {}
          /\ \E i \in MainRows(n) :
                /\ RemainingAfter(n, i) < 0
                /\ side_candidates(df, SlotRows(n), i) # {}

\* the candidates for the Side of a slot whose Main is row i, and how far the
\* calories of a row are from what the Main leaves
SideRows(m, i) == side_candidates(df, SlotRows(m), i)

DiffOf(m, i, j) == Abs(df[j].calories - RemainingAfter(m, i))

\* the candidates among cands strictly closer to the remaining budget than row j
CloserThan(cands, m, i, j) == {c \in cands : DiffOf(m, i, c) < DiffOf(m, i, j)}

\* C23: a selected Side is one of the 3 candidates closest in calories to the
\* remaining budget: fewer than 3 candidates are strictly closer than it
C23_ClosestSide ==
    PlannedDay =>
        \A m \in MealNames :
            Len(ret.out[m].items) = 2 =>
                \E i \in MainRows(m) : \E cands \in {SideRows(m, i)} :
                    \E j \in SourceRows(ret.out[m].items[2]) \cap cands :
                        Cardinality(CloserThan(cands, m, i, j)) < 3

\* C23 witness: a Side chosen among more than 3 candidates at different
\* distances, two of them closer than it and one farther
C23_Witness ==
    /\ PlannedDay
    /\ \E m \in MealNames :
          /\ Len(ret.out[m].items) = 2
          /\ \E i \in MainRows(m) : \E cands \in {SideRows(m, i)} :
                \E j \in SourceRows(ret.out[m].items[2]) \cap cands :
                    /\ Cardinality(cands) > 3
                    /\ Cardinality(CloserThan(cands, m, i, j)) = 2
                    /\ \E c \in cands : DiffOf(m, i, c) > DiffOf(m, i, j)

---------------------------------------------------------------------------
(* NutritionAgent: the Main *)

\* the rows of a subset S of the catalog with strictly more calories than row
\* i, and the other rows with at least as many
RicherThan(S, i) == {j \in S : df[j].calories > df[i].calories}

AtLeastAsRich(S, i) == {j \in S \ {i} : df[j].calories >= df[i].calories}

\* the rows that are in the top half of S, ranked by descending calories,
\* whatever the order of rows of equal calories
TopHalf(S) == {i \in S : Cardinality(AtLeastAsRich(S, i)) < Cardinality(S) \div 2}

\* C24: the Main of a meal is a row of the top half of the slot's subset by
\* descending calories, so fewer than half of the subset's rows have strictly
\* more calories; and every row of the top half is one the random choice of
\* the Main can draw
C24_MainFromTopHalf ==
    PlannedDay =>
        \A m \in MealNames : \E S \in {SlotRows(m)} :
            /\ ret.out[m].items # <<>> =>
                  \E i \in SourceRows(ret.out[m].items[1]) \cap S :
                      /\ Cardinality(RicherThan(S, i)) < Cardinality(S) \div 2
                      /\ 2 * Cardinality(RicherThan(S, i)) < Cardinality(S)
            /\ TopHalf(S) \subseteq main_candidates(df, S)

\* C24 witness: a subset of at least four rows whose top half holds rows of
\* different calories, the Main of the meal being the second of them
C24_Witness ==
    /\ PlannedDay
    /\ \E m \in MealNames : \E S \in {SlotRows(m)} :
          /\ Cardinality(S) >= 4
          /\ Cardinality(TopHalf(S)) >= 2
          /\ \A i \in MainRows(m) : Cardinality(RicherThan(S, i)) = 1
          /\ \E j \in S \ TopHalf(S) : \A i \in MainRows(m) :
                df[j].calories < df[i].calories

---------------------------------------------------------------------------
(* RecommendationEngine: the stages *)

\* the positions in calls of the calls of a method
CallsOf(method) == {k \in 1..Len(calls) : calls[k] = method}

\* the days stored so far are Day 1 up to Day n
StoredDays(n) == DOMAIN weekly_plan = {<<"Day", d>> : d \in 1..n}

\* C25: the analysis is the first call of generate_plan and is made once; the
\* planner is called for Day 1 to Day 7 in this order, each day stored before
\* the next is planned; the narrative generator is called at most once, after
\* seven days were stored; when a stage fails nothing is called after it and
\* generate_plan ends with an error result
C25_StageOrder ==
    LET planned == Cardinality(CallsOf("recommend_meal_plan"))
    IN  /\ pc \in {"plan", "explain", "done"} => CallsOf("analyze_user") = {1}
        /\ CallsOf("recommend_meal_plan") = 2..(planned + 1)
        /\ planned <= 7
        /\ StoredDays(planned) \/ (planned > 0 /\ StoredDays(planned - 1) /\ pc = "done")
        /\ pc = "plan" => day = planned + 1 /\ StoredDays(planned)
        /\ CallsOf("explain_plan") \subseteq {9}
        /\ CallsOf("explain_plan") # {} =>
              /\ planned = 7 /\ StoredDays(7) /\ Len(calls) = 9
              /\ "error" \notin DOMAIN daily_meals
        /\ (pc # "idle" /\ calls # <<>> /\ health_analysis = EmptyDict) =>
              calls = <<"analyze_user">> /\ pc = "done" /\ DOMAIN result = {"error"}
        /\ (planned > 0 /\ ~StoredDays(planned)) =>
              calls[Len(calls)] = "recommend_meal_plan" /\ DOMAIN result = {"error"}
        /\ "error" \in DOMAIN result => pc = "done"
        /\ (pc = "done" /\ "error" \notin DOMAIN result) => Len(calls) = 9

\* C25 witness: generate_plan has ended after the analysis, seven days and
\* the call of the narrative generator
C25_Witness ==
    /\ pc = "done"
    /\ calls = <<"analyze_user">> \o [k \in 1..7 |-> "recommend_meal_plan"] \o <<"explain_plan">>
    /\ StoredDays(7)

---------------------------------------------------------------------------
(* RecommendationEngine: the totals of a day *)

MacroNames == {"protein", "carbs", "fats"}

\* the sum over the three meals of a day of a macro of their summaries, an
\* absent summary counting 0, and of the calorie fields of their listed items
MealsMacro(entry, k) == SumOver([m \in MealNames |-> SummaryOf(entry.meals[m])[k]], MealNames)

ListedCalories(entry) == SumOver([m \in MealNames |-> Listed(entry.meals[m], "calories")], MealNames)

MealsCalories(entry) == SumOver([m \in MealNames |-> entry.meals[m].total_calories], MealNames)

\* C26 as stated: a day's calories are the sum of its meals' totals, its macros
\* the sums of the meals' macro summaries, and the day's calories the sum of
\* the calorie fields of all items listed in the day
C26_DayAggregation ==
    \A d \in DOMAIN weekly_plan :
        /\ weekly_plan[d].calories = MealsCalories(weekly_plan[d])
        /\ \A k \in MacroNames : weekly_plan[d].macros[k] = MealsMacro(weekly_plan[d], k)
        /\ weekly_plan[d].calories = ListedCalories(weekly_plan[d])

\* C26 amended: a day's calories are the sum of its meals' totals, which is
\* the sum of the calorie fields of the listed items or up to 3 more, one for
\* each meal; each of its macros is the sum of the meals' macro summaries
\* rounded to one decimal
C26_RoundedAggregation ==
    \A d \in DOMAIN weekly_plan :
        /\ weekly_plan[d].calories = MealsCalories(weekly_plan[d])
        /\ weekly_plan[d].calories - ListedCalories(weekly_plan[d]) \in 0..3
        /\ \A k \in MacroNames :
              /\ weekly_plan[d].macros[k] % 10 = 0
              /\ Abs(weekly_plan[d].macros[k] - MealsMacro(weekly_plan[d], k)) <= 5

\* C26 witness: a day whose three meals each total one more than their listed
\* items and whose protein sum has a second decimal that is rounded up
C26_Witness ==
    \E d \in DOMAIN weekly_plan :
        /\ weekly_plan[d].calories = ListedCalories(weekly_plan[d]) + 3
        /\ weekly_plan[d].macros["protein"] > MealsMacro(weekly_plan[d], "protein")
====
